---- MODULE Spec2Model ----
(***************************************************************************)
(* Model of app/db.py: schema provisioning (init_db) and the two session   *)
(* scopes (session_scope, get_db) over a PostgreSQL database reached       *)
(* through SQLAlchemy.                                                     *)
(*                                                                         *)
(* Every database round trip may fail: the failure is an input chosen by   *)
(* the environment (\E ok \in BOOLEAN).  DDL is transactional: a           *)
(* connection's uncommitted objects live in txn and reach schema only on   *)
(* a successful commit.                                                    *)
(***************************************************************************)
EXTENDS Integers, Sequences, FiniteSets, TLC

\* ------------------------------------------------------------------ bounds
MaxCalls == 2       \* init_db calls made by one process
MaxSessions == 2    \* sessions handed out by SessionLocal
MaxWrites == 1      \* writes a caller performs in one body

\* --------------------------------------------------------------- constants
Procs == {"p1", "p2"}
Sids == 1..MaxSessions

Ext == "vector"
Idx == "idx_chunks_embedding_ivfflat"
\* Tables of Base.metadata (app.models); chunks carries the vector column.
DeclaredTables == {"chunks", "documents"}
Objects == {Ext, Idx} \cup DeclaredTables

\* A schema the database can hold: the index needs its table, and the table
\* with the vector column needs the extension's type.
ValidSchema(S) ==
    /\ (Idx \in S => "chunks" \in S)
    /\ ("chunks" \in S => Ext \in S)

NoError == "none"
\* Errors raised by the driver for a failed round trip.
DBError == "DBAPIError"
RollbackError == "RollbackError"
ConfigError == "RuntimeError"
\* Errors a caller's body can raise: one that `except Exception` catches and
\* one (KeyboardInterrupt) that it does not.
BodyErrors == {"ValueError", "KeyboardInterrupt"}
IsException(e) == e \notin {NoError, "KeyboardInterrupt"}

VARIABLES
    schema,            \* committed schema objects of the database
    persisted,         \* committed rows, each <<sid, n>>
    \* --- init_db, per calling process
    pc,                \* position inside init_db
    vector_available,  \* the local of that name
    txn,               \* objects created in the open connection's transaction
    todo,              \* tables create_all found missing and is about to create
    err,               \* exception in flight
    result,            \* how the current call ended: "none", "returned", or the error raised
    log,               \* round trips of the current call, in order: [op, ok, fault]
    calls,             \* calls completed
    prev,              \* the previous completed call: [result, schema, log]
    before,            \* the committed schema when the current call began
    \* --- sessions, per session id
    spc,               \* position inside session_scope / get_db
    kind,              \* "scope" | "getdb" | "none"
    sstate,            \* "none","created","active","committed","rolled_back","closed"
    slog,              \* operations on the session, in order: [by, op, ok]
    pending,           \* rows written and not yet committed
    bodyErr,           \* what the caller's body raised
    exc,               \* exception in flight inside the scope
    outcome,           \* what reached the caller of the scope
    sessobj,           \* the Session object SessionLocal() returned to the scope (0: none)
    conn               \* the pooled connection the session holds (0: none)

initVars == <<pc, vector_available, txn, todo, err, result, log, calls, prev, before>>
sessVars == <<spc, kind, sstate, slog, pending, bodyErr, exc, outcome, sessobj, conn>>
vars == <<schema, persisted, initVars, sessVars>>

NoPrev == [result |-> "none", schema |-> {}, log |-> <<>>]

Init ==
    /\ schema \in {S \in SUBSET Objects : ValidSchema(S)}
    /\ persisted = {}
    /\ pc = [p \in Procs |-> "idle"]
    /\ vector_available = [p \in Procs |-> FALSE]
    /\ txn = [p \in Procs |-> {}]
    /\ todo = [p \in Procs |-> {}]
    /\ err = [p \in Procs |-> NoError]
    /\ result = [p \in Procs |-> "none"]
    /\ log = [p \in Procs |-> <<>>]
    /\ calls = [p \in Procs |-> 0]
    /\ prev = [p \in Procs |-> NoPrev]
    /\ before = [p \in Procs |-> {}]
    /\ spc = [s \in Sids |-> "idle"]
    /\ kind = [s \in Sids |-> "none"]
    /\ sstate = [s \in Sids |-> "none"]
    /\ slog = [s \in Sids |-> <<>>]
    /\ pending = [s \in Sids |-> {}]
    /\ bodyErr = [s \in Sids |-> NoError]
    /\ exc = [s \in Sids |-> NoError]
    /\ outcome = [s \in Sids |-> "none"]
    /\ sessobj = [s \in Sids |-> 0]
    /\ conn = [s \in Sids |-> 0]

\* ================================================================ init_db

\* One round trip of a call: whether it succeeded, and whether its failure was
\* injected by the environment (fault) or decided by the database's state.
Step(op, ok, fault) == [op |-> op, ok |-> ok, fault |-> fault]

\* What a connection sees: committed objects and its own uncommitted ones.
Visible(p) == schema \cup txn[p]

\* The exception leaves init_db: the `with` block closes the connection,
\* which discards its open transaction.
Raise(p, e) ==
    /\ pc' = [pc EXCEPT ![p] = "done"]
    /\ result' = [result EXCEPT ![p] = e]
    /\ err' = [err EXCEPT ![p] = NoError]
    /\ txn' = [txn EXCEPT ![p] = {}]

\* init_db returns None.
Return(p) ==
    /\ pc' = [pc EXCEPT ![p] = "done"]
    /\ result' = [result EXCEPT ![p] = "returned"]
    /\ err' = [err EXCEPT ![p] = NoError]
    /\ txn' = [txn EXCEPT ![p] = {}]

\* def init_db(): vector_available = False
InitDbCall(p) ==
    /\ pc[p] \in {"idle", "done"}
    /\ calls[p] + (IF pc[p] = "done" THEN 1 ELSE 0) < MaxCalls
    /\ pc' = [pc EXCEPT ![p] = "connect1"]
    /\ vector_available' = [vector_available EXCEPT ![p] = FALSE]
    /\ txn' = [txn EXCEPT ![p] = {}]
    /\ todo' = [todo EXCEPT ![p] = {}]
    /\ err' = [err EXCEPT ![p] = NoError]
    /\ result' = [result EXCEPT ![p] = "none"]
    /\ log' = [log EXCEPT ![p] = <<>>]
    /\ before' = [before EXCEPT ![p] = schema]
    /\ IF pc[p] = "done"
       THEN /\ calls' = [calls EXCEPT ![p] = @ + 1]
            /\ prev' = [prev EXCEPT ![p] =
                           [result |-> result[p], schema |-> schema, log |-> log[p]]]
       ELSE UNCHANGED <<calls, prev>>
    /\ UNCHANGED <<schema, persisted, sessVars>>

\* with engine.connect() as conn:   (first block; outside the try)
Connect1(p) ==
    /\ pc[p] = "connect1"
    /\ \E ok \in BOOLEAN :
         /\ log' = [log EXCEPT ![p] = Append(@, Step("connect1", ok, ~ok))]
         /\ IF ok
            THEN /\ pc' = [pc EXCEPT ![p] = "query"]
                 /\ UNCHANGED <<result, err, txn>>
            ELSE Raise(p, DBError)
    /\ UNCHANGED <<schema, persisted, vector_available, todo, calls, prev, before, sessVars>>

\* res = conn.execute("SELECT 1 FROM pg_extension WHERE extname = 'vector'")
\* if res.scalar() == 1: vector_available = True
ExtQuery(p) ==
    /\ pc[p] = "query"
    /\ \E ok \in BOOLEAN :
         /\ log' = [log EXCEPT ![p] = Append(@, Step("query", ok, ~ok))]
         /\ IF ~ok
            THEN /\ err' = [err EXCEPT ![p] = DBError]
                 /\ pc' = [pc EXCEPT ![p] = "rollback1"]
                 /\ UNCHANGED vector_available
            ELSE /\ UNCHANGED err
                 /\ IF Ext \in Visible(p)
                    THEN /\ vector_available' = [vector_available EXCEPT ![p] = TRUE]
                         /\ pc' = [pc EXCEPT ![p] = "commit1"]
                    ELSE /\ UNCHANGED vector_available
                         /\ pc' = [pc EXCEPT ![p] = "create_ext"]
    /\ UNCHANGED <<schema, persisted, txn, todo, result, calls, prev, before, sessVars>>

\* Another connection has created object o and not yet committed: a CREATE
\* of the same name waits on the catalog's unique index for that transaction.
Contended(p, o) == \E q \in Procs \ {p} : o \in txn[q]

\* The error the inner handler raises for a failed CREATE EXTENSION.
CreateExtFailure == ConfigError

\* conn.execute("CREATE EXTENSION IF NOT EXISTS vector"); vector_available = True
\* except Exception as e: raise RuntimeError(...) from e
CreateExt(p) ==
    /\ pc[p] = "create_ext"
    /\ ~Contended(p, Ext)
    /\ \E ok \in BOOLEAN :
         /\ log' = [log EXCEPT ![p] = Append(@, Step("create_ext", ok, ~ok))]
         /\ IF ok
            THEN /\ txn' = [txn EXCEPT ![p] = @ \cup ({Ext} \ schema)]
                 /\ vector_available' = [vector_available EXCEPT ![p] = TRUE]
                 /\ pc' = [pc EXCEPT ![p] = "commit1"]
                 /\ UNCHANGED err
            ELSE /\ err' = [err EXCEPT ![p] = CreateExtFailure]
                 /\ pc' = [pc EXCEPT ![p] = "rollback1"]
                 /\ UNCHANGED <<txn, vector_available>>
    /\ UNCHANGED <<schema, persisted, todo, result, calls, prev, before, sessVars>>

\* conn.commit()   (extension step)
Commit1(p) ==
    /\ pc[p] = "commit1"
    /\ \E ok \in BOOLEAN :
         /\ log' = [log EXCEPT ![p] = Append(@, Step("commit1", ok, ~ok))]
         /\ IF ok
            THEN /\ schema' = schema \cup txn[p]
                 /\ txn' = [txn EXCEPT ![p] = {}]
                 /\ pc' = [pc EXCEPT ![p] = "create_all"]
                 /\ UNCHANGED err
            ELSE /\ err' = [err EXCEPT ![p] = DBError]
                 /\ pc' = [pc EXCEPT ![p] = "rollback1"]
                 /\ UNCHANGED <<schema, txn>>
    /\ UNCHANGED <<persisted, vector_available, todo, result, calls, prev, before, sessVars>>

\* A handler that rolls back and carries on instead of re-raising.
ExtStepHandler_Swallow(p, ok) ==
    /\ pc' = [pc EXCEPT ![p] = "create_all"]
    /\ err' = [err EXCEPT ![p] = NoError]
    /\ txn' = [txn EXCEPT ![p] = {}]
    /\ UNCHANGED result

\* The extension step's handler after conn.rollback(): `raise` re-raises the
\* caught error; a rollback that raised propagates its own error instead.
ExtStepHandler(p, ok) == IF ok THEN Raise(p, err[p]) ELSE Raise(p, RollbackError)

\* except Exception: conn.rollback(); raise
Rollback1(p) ==
    /\ pc[p] = "rollback1"
    /\ \E ok \in BOOLEAN :
         /\ log' = [log EXCEPT ![p] = Append(@, Step("rollback1", ok, ~ok))]
         /\ ExtStepHandler(p, ok)
    /\ UNCHANGED <<schema, persisted, vector_available, todo, calls, prev, before, sessVars>>

\* create_all over a metadata the models were never imported into.
TablesToCreate_NoModels == {}

\* create_all without its existence check (checkfirst=False).
TablesToCreate_NoCheckFirst == DeclaredTables

\* Tables create_all emits CREATE TABLE for (checkfirst=True: the missing ones).
TablesToCreate == DeclaredTables \ schema

\* Whether the CREATE TABLE statements can run: chunks needs the vector type
\* (and CREATE TABLE of an existing relation is an error).
CanCreate(T) == "chunks" \in T => Ext \in schema

\* Base.metadata.create_all(bind=engine), first half: checkfirst asks the
\* database which of the declared tables exist and keeps the missing ones.
CheckFirst(p) ==
    /\ pc[p] = "create_all"
    /\ todo' = [todo EXCEPT ![p] = TablesToCreate]
    /\ pc' = [pc EXCEPT ![p] = "create_tables"]
    /\ UNCHANGED <<schema, persisted, vector_available, txn, err, result, log, calls, prev, before, sessVars>>

\* Base.metadata.create_all(bind=engine), second half: CREATE TABLE for the
\* tables found missing, committed as one transaction of its own. A table
\* that has appeared since the check makes CREATE TABLE fail.
CreateAll(p) ==
    /\ pc[p] = "create_tables"
    /\ \E fault \in BOOLEAN :
         LET ok == ~fault /\ CanCreate(todo[p]) /\ todo[p] \cap schema = {} IN
         /\ log' = [log EXCEPT ![p] = Append(@, Step("create_all", ok, fault))]
         /\ IF ok
            THEN /\ schema' = schema \cup todo[p]
                 /\ pc' = [pc EXCEPT ![p] = "guard"]
                 /\ UNCHANGED <<result, err, txn>>
            ELSE /\ Raise(p, DBError)
                 /\ UNCHANGED schema
    /\ UNCHANGED <<persisted, vector_available, todo, calls, prev, before, sessVars>>

\* if vector_available:
IndexGuard(p) == vector_available[p]

Guard(p) ==
    /\ pc[p] = "guard"
    /\ IF IndexGuard(p)
       THEN /\ pc' = [pc EXCEPT ![p] = "connect2"]
            /\ UNCHANGED <<result, err, txn>>
       ELSE Return(p)
    /\ UNCHANGED <<schema, persisted, vector_available, todo, log, calls, prev, before, sessVars>>

\* with engine.connect() as conn:   (second block; outside the try)
Connect2(p) ==
    /\ pc[p] = "connect2"
    /\ \E ok \in BOOLEAN :
         /\ log' = [log EXCEPT ![p] = Append(@, Step("connect2", ok, ~ok))]
         /\ IF ok
            THEN /\ pc' = [pc EXCEPT ![p] = "index"]
                 /\ UNCHANGED <<result, err, txn>>
            ELSE Raise(p, DBError)
    /\ UNCHANGED <<schema, persisted, vector_available, todo, calls, prev, before, sessVars>>

\* DO $$ IF NOT EXISTS (SELECT 1 FROM pg_indexes WHERE indexname = ...) THEN
\*   CREATE INDEX ... ON chunks ...; END IF; $$ : the objects the block creates.
IndexToCreate(p) == IF Idx \in Visible(p) THEN {} ELSE {Idx}

\* conn.execute(text("DO $$ ... $$"))
IndexStmt(p) ==
    /\ pc[p] = "index"
    /\ IndexToCreate(p) # {} => ~Contended(p, Idx)
    /\ \E fault \in BOOLEAN :
         LET new == IndexToCreate(p)
             ok == ~fault /\ (new # {} => "chunks" \in Visible(p) /\ Idx \notin Visible(p))
         IN
         /\ log' = [log EXCEPT ![p] = Append(@, Step("index", ok, fault))]
         /\ IF ok
            THEN /\ txn' = [txn EXCEPT ![p] = @ \cup new]
                 /\ pc' = [pc EXCEPT ![p] = "commit2"]
                 /\ UNCHANGED err
            ELSE /\ err' = [err EXCEPT ![p] = DBError]
                 /\ pc' = [pc EXCEPT ![p] = "rollback2"]
                 /\ UNCHANGED txn
    /\ UNCHANGED <<schema, persisted, vector_available, todo, result, calls, prev, before, sessVars>>

\* conn.commit()   (index step)
Commit2(p) ==
    /\ pc[p] = "commit2"
    /\ \E ok \in BOOLEAN :
         /\ log' = [log EXCEPT ![p] = Append(@, Step("commit2", ok, ~ok))]
         /\ IF ok
            THEN /\ schema' = schema \cup txn[p]
                 /\ Return(p)
            ELSE /\ err' = [err EXCEPT ![p] = DBError]
                 /\ pc' = [pc EXCEPT ![p] = "rollback2"]
                 /\ UNCHANGED <<schema, txn, result>>
    /\ UNCHANGED <<persisted, vector_available, todo, calls, prev, before, sessVars>>

\* except Exception: conn.rollback()   # Non-fatal  (no raise)
\* A rollback that raises is not caught: its error leaves init_db.
Rollback2(p) ==
    /\ pc[p] = "rollback2"
    /\ \E ok \in BOOLEAN :
         /\ log' = [log EXCEPT ![p] = Append(@, Step("rollback2", ok, ~ok))]
         /\ IF ok THEN Return(p) ELSE Raise(p, RollbackError)
    /\ UNCHANGED <<schema, persisted, vector_available, todo, calls, prev, before, sessVars>>

init_db(p) ==
    \/ InitDbCall(p)
    \/ Connect1(p)
    \/ ExtQuery(p)
    \/ CreateExt(p)
    \/ Commit1(p)
    \/ Rollback1(p)
    \/ CheckFirst(p)
    \/ CreateAll(p)
    \/ Guard(p)
    \/ Connect2(p)
    \/ IndexStmt(p)
    \/ Commit2(p)
    \/ Rollback2(p)

\* --- statements of concurrent calls that collide on a name

\* The statement the call is at, the object it is about to create and where
\* its failure is handled.
Creating(p) ==
    IF pc[p] \in {"create_ext", "create_ext_wait"}
    THEN [obj |-> Ext, op |-> "create_ext", at |-> "create_ext", wait |-> "create_ext_wait",
          error |-> CreateExtFailure, handler |-> "rollback1"]
    ELSE [obj |-> Idx, op |-> "index", at |-> "index", wait |-> "index_wait",
          error |-> DBError, handler |-> "rollback2"]

\* CREATE EXTENSION / CREATE INDEX finds the name held by an uncommitted
\* transaction of another connection and waits for it.
Wait(p) ==
    /\ \/ pc[p] = "create_ext"
       \/ pc[p] = "index" /\ IndexToCreate(p) # {}
    /\ Contended(p, Creating(p).obj)
    /\ pc' = [pc EXCEPT ![p] = Creating(p).wait]
    /\ UNCHANGED <<schema, persisted, vector_available, txn, todo, err, result, log, calls, prev, before, sessVars>>

\* The other transaction has ended. If it committed, the waiting statement
\* fails on the duplicate name (IF NOT EXISTS was evaluated before the wait);
\* if it rolled back, the statement goes ahead.
Resume(p) ==
    /\ pc[p] \in {"create_ext_wait", "index_wait"}
    /\ ~Contended(p, Creating(p).obj)
    /\ IF Creating(p).obj \in schema
       THEN /\ log' = [log EXCEPT ![p] = Append(@, Step(Creating(p).op, FALSE, FALSE))]
            /\ err' = [err EXCEPT ![p] = Creating(p).error]
            /\ pc' = [pc EXCEPT ![p] = Creating(p).handler]
       ELSE /\ pc' = [pc EXCEPT ![p] = Creating(p).at]
            /\ UNCHANGED <<log, err>>
    /\ UNCHANGED <<schema, persisted, vector_available, txn, todo, result, calls, prev, before, sessVars>>

\* ====================================================== session_scope, get_db

Op(by, op, ok) == [by |-> by, op |-> op, ok |-> ok]

CommitError == "CommitError"

\* Rows the caller of session s has written so far.
Written(s) == {i \in 1..Len(slog[s]) : slog[s][i].op = "write"}

CallerCommitted(s) == \E i \in 1..Len(slog[s]) : slog[s][i] = Op("caller", "commit", TRUE)

\* A module-level Session shared by every scope.
NewSession_Shared(s) == 1

\* SessionLocal(): the sessionmaker constructs a new Session object at each
\* call; scope s gets object s.
NewSession(s) == s

\* Connections of the engine's pool, enough for every session.
Conns == 1..MaxSessions

\* A sessionmaker bound to one Connection instead of the engine.
Checkout_SingleConnection(s) == 1

\* The pool hands out a connection no other session holds. Pooled
\* connections are interchangeable, so the choice among the free ones is
\* fixed: the s-th connection when it is free.
Checkout(s) == CHOOSE c \in Conns :
                   /\ \A r \in Sids : conn[r] # c
                   /\ (\A r \in Sids : conn[r] # s) => c = s

\* session = SessionLocal()  /  db = SessionLocal(): a new session per call.
SessionLocal(s, k) ==
    /\ spc[s] = "idle"
    /\ \A r \in Sids : r < s => spc[r] # "idle"
    /\ kind' = [kind EXCEPT ![s] = k]
    /\ sstate' = [sstate EXCEPT ![s] = "created"]
    /\ spc' = [spc EXCEPT ![s] = "yield"]
    /\ sessobj' = [sessobj EXCEPT ![s] = NewSession(s)]
    /\ UNCHANGED <<schema, persisted, initVars, conn, slog, pending, bodyErr, exc, outcome>>

\* yield session  /  yield db: the caller's body starts.
Yield(s) ==
    /\ spc[s] = "yield"
    /\ spc' = [spc EXCEPT ![s] = "body"]
    /\ sstate' = [sstate EXCEPT ![s] = "active"]
    /\ UNCHANGED <<schema, persisted, initVars, sessobj, conn, kind, slog, pending, bodyErr, exc, outcome>>

\* The caller's body adds a row (session.add + flush inside the transaction);
\* the session's first round trip takes its connection from the pool.
BodyWrite(s) ==
    /\ spc[s] = "body"
    /\ Cardinality(Written(s)) < MaxWrites
    /\ ~CallerCommitted(s)
    /\ pending' = [pending EXCEPT ![s] = @ \cup {<<s, Cardinality(Written(s)) + 1>>}]
    /\ slog' = [slog EXCEPT ![s] = Append(@, Op("caller", "write", TRUE))]
    /\ conn' = [conn EXCEPT ![s] = IF @ = 0 THEN Checkout(s) ELSE @]
    /\ UNCHANGED <<schema, persisted, initVars, sessobj, spc, kind, sstate, bodyErr, exc, outcome>>

\* A scope without its except clause.
Handler_NoRollback(s, e) == "finally"

\* A scope that commits whatever the body did.
Handler_CommitOnError(s, e) == IF kind[s] = "scope" THEN "commit" ELSE "finally"

\* Where a raised error e goes: session_scope's `except Exception` takes the
\* exceptions; anything else, and everything in get_db, goes to `finally`.
Handler(s, e) == IF kind[s] = "scope" /\ IsException(e) THEN "except" ELSE "finally"

\* The caller of get_db commits explicitly inside its body; a commit that
\* fails raises in the body.
BodyCommit(s) ==
    /\ spc[s] = "body"
    /\ kind[s] = "getdb"
    /\ ~CallerCommitted(s)
    /\ \E ok \in BOOLEAN :
         /\ slog' = [slog EXCEPT ![s] = Append(@, Op("caller", "commit", ok))]
         /\ IF ok
            THEN /\ persisted' = persisted \cup pending[s]
                 /\ pending' = [pending EXCEPT ![s] = {}]
                 /\ sstate' = [sstate EXCEPT ![s] = "committed"]
                 /\ UNCHANGED <<spc, bodyErr, exc>>
            ELSE /\ bodyErr' = [bodyErr EXCEPT ![s] = CommitError]
                 /\ exc' = [exc EXCEPT ![s] = CommitError]
                 /\ spc' = [spc EXCEPT ![s] = Handler(s, CommitError)]
                 /\ UNCHANGED <<persisted, pending, sstate>>
    /\ UNCHANGED <<schema, initVars, sessobj, conn, kind, outcome>>

\* A scope that forgets to commit.
AfterBody_NoCommit(s) == "finally"

\* A request scope that commits implicitly.
AfterBody_AlwaysCommit(s) == "commit"

\* The body completes: session_scope goes on to session.commit(), get_db to
\* its finally.
AfterBody(s) == IF kind[s] = "scope" THEN "commit" ELSE "finally"

BodyFinish(s) ==
    /\ spc[s] = "body"
    /\ spc' = [spc EXCEPT ![s] = AfterBody(s)]
    /\ UNCHANGED <<schema, persisted, initVars, sessobj, conn, kind, sstate, slog, pending, bodyErr, exc, outcome>>

\* An operation in the body raises e; the generator is resumed with it.
BodyRaise(s) ==
    /\ spc[s] = "body"
    /\ \E e \in BodyErrors :
         /\ bodyErr' = [bodyErr EXCEPT ![s] = e]
         /\ exc' = [exc EXCEPT ![s] = e]
         /\ spc' = [spc EXCEPT ![s] = Handler(s, e)]
    /\ UNCHANGED <<schema, persisted, initVars, sessobj, conn, kind, sstate, slog, pending, outcome>>

\* session.commit()   (session_scope only, after a clean body)
ScopeCommit(s) ==
    /\ spc[s] = "commit"
    /\ \E ok \in BOOLEAN :
         /\ slog' = [slog EXCEPT ![s] = Append(@, Op("module", "commit", ok))]
         /\ IF ok
            THEN /\ persisted' = persisted \cup pending[s]
                 /\ pending' = [pending EXCEPT ![s] = {}]
                 /\ sstate' = [sstate EXCEPT ![s] = "committed"]
                 /\ spc' = [spc EXCEPT ![s] = "finally"]
                 /\ UNCHANGED exc
            ELSE /\ exc' = [exc EXCEPT ![s] = CommitError]
                 /\ spc' = [spc EXCEPT ![s] = Handler(s, CommitError)]
                 /\ UNCHANGED <<persisted, pending, sstate>>
    /\ UNCHANGED <<schema, initVars, sessobj, conn, kind, bodyErr, outcome>>

\* The error in flight after session.rollback(): `raise` re-raises the caught
\* one; a rollback that raised replaces it.
Reraised(s, ok) == IF ok THEN exc[s] ELSE RollbackError

\* A close placed after the try statement instead of in its finally clause:
\* skipped when the handler itself raises.
AfterRollback_SkipFinally(s, ok) == IF ok THEN "finally" ELSE "done"

\* A handler that tries the rollback again until it goes through.
AfterRollback_Retry(s, ok) == IF ok THEN "finally" ELSE "except"

\* After the handler the finally clause runs, whether or not rollback raised.
AfterRollback(s, ok) == "finally"

\* except Exception: session.rollback(); raise
ScopeRollback(s) ==
    /\ spc[s] = "except"
    /\ \E ok \in BOOLEAN :
         /\ slog' = [slog EXCEPT ![s] = Append(@, Op("module", "rollback", ok))]
         /\ exc' = [exc EXCEPT ![s] = Reraised(s, ok)]
         /\ IF ok
            THEN /\ pending' = [pending EXCEPT ![s] = {}]
                 /\ sstate' = [sstate EXCEPT ![s] = "rolled_back"]
            ELSE UNCHANGED <<pending, sstate>>
         /\ spc' = [spc EXCEPT ![s] = AfterRollback(s, ok)]
    /\ UNCHANGED <<schema, persisted, initVars, sessobj, conn, kind, bodyErr, outcome>>

\* Where the scope stands after its finally clause.
AfterFinally(s) == "done"

\* finally: session.close()  /  db.close(): the connection goes back to the
\* pool, which discards whatever was not committed; then the scope exits,
\* returning or raising the exception in flight.
Close(s) ==
    /\ spc[s] = "finally"
    /\ slog' = [slog EXCEPT ![s] = Append(@, Op("module", "close", TRUE))]
    /\ pending' = [pending EXCEPT ![s] = {}]
    /\ sstate' = [sstate EXCEPT ![s] = "closed"]
    /\ spc' = [spc EXCEPT ![s] = AfterFinally(s)]
    /\ outcome' = [outcome EXCEPT ![s] = IF exc[s] = NoError THEN "returned" ELSE exc[s]]
    /\ conn' = [conn EXCEPT ![s] = 0]
    /\ UNCHANGED <<schema, persisted, initVars, sessobj, kind, bodyErr, exc>>

session_scope(s) ==
    \/ SessionLocal(s, "scope")
    \/ ScopeCommit(s)
    \/ ScopeRollback(s)

get_db(s) == SessionLocal(s, "getdb")

\* Steps the two scopes share: the yield and the finally clause.
Scope(s) ==
    \/ Yield(s)
    \/ Close(s)

\* What the caller does with the session it was handed.
Caller(s) ==
    \/ BodyWrite(s)
    \/ BodyCommit(s)
    \/ BodyFinish(s)
    \/ BodyRaise(s)

\* Concurrent callers, each with a session of its own.
NextSess == \E s \in Sids : session_scope(s) \/ get_db(s) \/ Scope(s) \/ Caller(s)

\* Sessions are served once the schema is provisioned.
InitSess == Init /\ schema = Objects

SpecSess == InitSess /\ [][NextSess]_vars

\* Every started step of a scope is eventually taken: the caller's body ends
\* (by finishing or raising) and the interpreter runs the handler and finally.
LiveSess == SpecSess /\ WF_vars(NextSess)

\* ========================================================= specifications

\* One process provisions the schema, calling init_db up to MaxCalls times.
NextInit == init_db("p1")

Spec == Init /\ [][NextInit]_vars

\* The whole module in one process: init_db calls and one caller's scope, in
\* any interleaving.
NextOne == LET s == 1 IN session_scope(s) \/ get_db(s) \/ Scope(s) \/ Caller(s)

NextAll == NextInit \/ NextOne

SpecAll == Init /\ [][NextAll]_vars

\* Two processes start against the same database, each calling init_db once.
Start(p) == pc[p] = "idle" /\ InitDbCall(p)

Run(p) ==
    \/ Connect1(p)
    \/ ExtQuery(p)
    \/ CreateExt(p)
    \/ Commit1(p)
    \/ Rollback1(p)
    \/ CheckFirst(p)
    \/ CreateAll(p)
    \/ Guard(p)
    \/ Connect2(p)
    \/ IndexStmt(p)
    \/ Commit2(p)
    \/ Rollback2(p)

NextConc == \E p \in Procs : Start(p) \/ Run(p) \/ Wait(p) \/ Resume(p)

SpecConc == Init /\ [][NextConc]_vars

\* ================================================================= claims

\* --- helpers over a call's log
Did(L, op) == \E i \in 1..Len(L) : L[i].op = op
Failed(L, op) == \E i \in 1..Len(L) : L[i].op = op /\ ~L[i].ok
NoFault(L) == \A i \in 1..Len(L) : ~L[i].fault
Times(L, op) == Cardinality({i \in 1..Len(L) : L[i].op = op})

\* C1: two init_db calls in succession, the first returning normally and no
\* round trip of the second failing: the second returns normally too, issues
\* no CREATE EXTENSION, and leaves the extension and every declared table
\* exactly as the first left them; it creates nothing but the index, and that
\* only when the first call's best-effort index step had left it missing.
C1_Idempotent ==
    \A p \in Procs :
        ( /\ pc[p] = "done"
          /\ calls[p] >= 1
          /\ prev[p].result = "returned"
          /\ NoFault(log[p]) )
        => /\ result[p] = "returned"
           /\ before[p] = prev[p].schema
           /\ schema \ {Idx} = prev[p].schema \ {Idx}
           /\ schema = Objects
           /\ Idx \in prev[p].schema => schema = prev[p].schema
           /\ ~Did(log[p], "create_ext")

\* The second of two calls has ended without creating anything, the first
\* having created the extension, the tables and the index from an empty
\* database.
C1_Witness ==
    /\ pc["p1"] = "done"
    /\ calls["p1"] = 1
    /\ prev["p1"].result = "returned"
    /\ Did(prev["p1"].log, "create_ext")
    /\ prev["p1"].schema = Objects
    /\ NoFault(log["p1"])
    /\ result["p1"] = "returned"
    /\ schema = Objects

C3_IndexFailureNonFatal ==
    \A p \in Procs :
        ( /\ pc[p] = "done"
          /\ Failed(log[p], "index") \/ Failed(log[p], "commit2") )
        => result[p] = "returned"

\* --- helpers over a session's log
Ops(s, by, op) == {i \in 1..Len(slog[s]) : slog[s][i].by = by /\ slog[s][i].op = op}
Calls(s, op) == Cardinality(Ops(s, "module", op))
Before(s, op1, op2) == \A i \in Ops(s, "module", op1), j \in Ops(s, "module", op2) : i < j
RowsOf(s) == {r \in persisted : r[1] = s}
CommitFailed(s) == \E i \in 1..Len(slog[s]) : slog[s][i] = Op("module", "commit", FALSE)
RollbackFailed(s) == \E i \in 1..Len(slog[s]) : slog[s][i] = Op("module", "rollback", FALSE)
RolledBack(s) == \E i \in 1..Len(slog[s]) : slog[s][i] = Op("module", "rollback", TRUE)
\* The first error of a scope: the body's, or else the failed commit's.
OriginalError(s) ==
    IF bodyErr[s] # NoError THEN bodyErr[s]
    ELSE IF CommitFailed(s) THEN CommitError ELSE NoError

\* C4: a session_scope whose body raised has exited with no commit called by
\* the scope, the transaction's rows discarded and none of them persisted,
\* rollback() called once and before close() for every error that `except
\* Exception` catches, and close() called exactly once, as the last operation.
C4_RaiseRollsBackAndReleasesOnce ==
    \A s \in Sids :
        (kind[s] = "scope" /\ spc[s] = "done" /\ bodyErr[s] # NoError)
        => /\ Calls(s, "commit") = 0
           /\ Calls(s, "close") = 1
           /\ slog[s][Len(slog[s])] = Op("module", "close", TRUE)
           /\ pending[s] = {}
           /\ RowsOf(s) = {}
           /\ sstate[s] = "closed"
           /\ IsException(bodyErr[s])
              => Calls(s, "rollback") = 1 /\ Before(s, "rollback", "close")

\* A session_scope whose body wrote a row and then raised has exited after a
\* successful rollback.
C4_Witness ==
    \E s \in Sids :
        /\ kind[s] = "scope"
        /\ spc[s] = "done"
        /\ bodyErr[s] = "ValueError"
        /\ Written(s) # {}
        /\ RolledBack(s)

\* C5: a session_scope whose body completed without error has exited after
\* exactly one commit() and exactly one close(), the commit first; a commit
\* that succeeded persisted every row the body wrote.
C5_CleanExitCommitsOnceReleasesOnce ==
    \A s \in Sids :
        (kind[s] = "scope" /\ spc[s] = "done" /\ bodyErr[s] = NoError)
        => /\ Calls(s, "commit") = 1
           /\ Calls(s, "close") = 1
           /\ Before(s, "commit", "close")
           /\ slog[s][Len(slog[s])] = Op("module", "close", TRUE)
           /\ ~CommitFailed(s)
              => /\ Cardinality(RowsOf(s)) = Cardinality(Written(s))
                 /\ outcome[s] = "returned"

\* A session_scope whose body wrote a row and finished has exited with the
\* row committed.
C5_Witness ==
    \E s \in Sids :
        /\ kind[s] = "scope"
        /\ spc[s] = "done"
        /\ bodyErr[s] = NoError
        /\ RowsOf(s) # {}
        /\ outcome[s] = "returned"

\* C6: get_db never calls commit; once the request has finished (normally or
\* with an error) it has closed the session exactly once, and rows written by
\* a caller that did not commit are not persisted.
C6_GetDbNeverCommits ==
    \A s \in Sids :
        kind[s] = "getdb"
        => /\ Calls(s, "commit") = 0
           /\ Calls(s, "rollback") = 0
           /\ ~CallerCommitted(s) => RowsOf(s) = {}
           /\ spc[s] = "done"
              => /\ Calls(s, "close") = 1
                 /\ sstate[s] = "closed"
                 /\ pending[s] = {}

\* Two requests have finished, one normally and one with an error, each
\* having written a row without committing.
C6_Witness ==
    \E s, r \in Sids :
        /\ kind[s] = "getdb" /\ kind[r] = "getdb"
        /\ spc[s] = "done" /\ spc[r] = "done"
        /\ Written(s) # {} /\ Written(r) # {}
        /\ ~CallerCommitted(s) /\ ~CallerCommitted(r)
        /\ bodyErr[s] = NoError /\ bodyErr[r] # NoError

\* C7: whatever the body, the commit and the rollback do, every session that
\* SessionLocal handed out ends up closed and stays closed: no scope is left
\* with its session created or active.
C7_EverySessionIsClosed ==
    <>[](\A s \in Sids : sstate[s] \in {"none", "closed"})

\* A session_scope whose commit failed and whose rollback then failed too has
\* exited with the session closed.
C7_Witness ==
    \E s \in Sids :
        /\ kind[s] = "scope"
        /\ CommitFailed(s)
        /\ RollbackFailed(s)
        /\ spc[s] = "done"
        /\ sstate[s] = "closed"

\* --- the session state machine
StrictMoves ==
    { <<"none", "created">>, <<"created", "active">>,
      <<"active", "committed">>, <<"active", "rolled_back">>,
      <<"committed", "closed">>, <<"rolled_back", "closed">> }

\* C8 as stated: every session moves created -> active -> (committed |
\* rolled_back) -> closed, and nothing is done to a closed session.
C8_StrictStateMachine ==
    [][\A s \in Sids :
          /\ sstate'[s] # sstate[s] => <<sstate[s], sstate'[s]>> \in StrictMoves
          /\ sstate[s] = "closed" => slog'[s] = slog[s]]_vars

\* C8 amended: every session moves created -> active -> closed, passing
\* through committed or rolled_back when a commit or rollback succeeded;
\* closed is terminal and nothing is done to a closed session.  A session is
\* closed straight from active only in get_db, or in session_scope when
\* rollback() itself failed or the body raised an error that `except
\* Exception` does not catch.
C8_StateMachine ==
    [][\A s \in Sids :
          /\ sstate'[s] # sstate[s]
             => <<sstate[s], sstate'[s]>> \in StrictMoves \cup {<<"active", "closed">>}
          /\ (sstate[s] = "active" /\ sstate'[s] = "closed")
             => \/ kind[s] = "getdb"
                \/ RollbackFailed(s)
                \/ (bodyErr[s] # NoError /\ ~IsException(bodyErr[s]))
          /\ sstate[s] = "closed" => (slog'[s] = slog[s] /\ sstate'[s] = "closed")]_vars

\* A get_db session has been closed with no commit and no rollback ever
\* performed on it, and a session_scope session has been closed after its
\* commit.
C8_Witness ==
    \E s, r \in Sids :
        /\ kind[s] = "getdb"
        /\ sstate[s] = "closed"
        /\ ~CallerCommitted(s)
        /\ Calls(s, "rollback") = 0
        /\ kind[r] = "scope"
        /\ sstate[r] = "closed"
        /\ Calls(r, "commit") = 1
        /\ ~CommitFailed(r)

\* C9 as stated: any failure (taken as any Exception) while the session is
\* active moves it to rolled_back, in session_scope and in get_db; the module
\* commits only on a clean session_scope exit, and a failed commit ends
\* rolled back with nothing persisted.
C9_FailureRollsBack ==
    \A s \in Sids :
        /\ Calls(s, "commit") > 0 => (kind[s] = "scope" /\ bodyErr[s] = NoError)
        /\ (spc[s] = "done" /\ IsException(OriginalError(s))) => RolledBack(s)
        /\ CommitFailed(s) => RowsOf(s) = {}

\* C9 amended: in session_scope an error that `except Exception` catches
\* (from the body or from commit) is followed by exactly one rollback() call
\* before close(), and the session is rolled_back when that call succeeds; in
\* get_db, and for an error `except Exception` does not catch, a failure is
\* followed by close() alone, with no rollback() call.  The module commits
\* only after a clean session_scope body, at most once, and rows of a session
\* whose body raised or whose commit failed are never persisted by the module.
C9_FailureHandling ==
    \A s \in Sids :
        /\ Calls(s, "commit") > 0 => (kind[s] = "scope" /\ bodyErr[s] = NoError)
        /\ Calls(s, "commit") <= 1
        /\ (kind[s] = "scope" /\ spc[s] \in {"finally", "done"} /\ IsException(OriginalError(s)))
           => /\ Calls(s, "rollback") = 1
              /\ Before(s, "rollback", "close")
              /\ (spc[s] = "finally" /\ RolledBack(s)) => sstate[s] = "rolled_back"
        /\ (kind[s] = "getdb" \/ ~IsException(OriginalError(s))) => Calls(s, "rollback") = 0
        /\ (OriginalError(s) # NoError /\ ~CallerCommitted(s)) => RowsOf(s) = {}
        /\ sstate[s] = "rolled_back" => RolledBack(s)
        /\ (sstate[s] = "committed" /\ kind[s] = "scope") => (Calls(s, "commit") = 1 /\ ~CommitFailed(s))

\* A request whose body wrote a row and raised has finished without any
\* rollback() call, and a session_scope whose commit failed has been rolled
\* back.
C9_Witness ==
    \E s, r \in Sids :
        /\ kind[s] = "getdb"
        /\ spc[s] = "done"
        /\ bodyErr[s] = "ValueError"
        /\ Written(s) # {}
        /\ Calls(s, "rollback") = 0
        /\ kind[r] = "scope"
        /\ CommitFailed(r)
        /\ RolledBack(r)

\* C10: the error that leaves a failed session_scope is the original one (the
\* body's, or the failed commit's), and the session is closed.
C10_OriginalErrorReachesCaller ==
    \A s \in Sids :
        (kind[s] = "scope" /\ spc[s] = "done" /\ OriginalError(s) # NoError)
        => /\ outcome[s] = OriginalError(s)
           /\ sstate[s] = "closed"

\* C11: whenever init_db has returned normally, the extension is registered
\* and every declared table exists; the index is not promised.
C11_ReturnMeansProvisioned ==
    \A p \in Procs :
        (pc[p] = "done" /\ result[p] = "returned")
        => /\ Ext \in schema
           /\ DeclaredTables \subseteq schema
           /\ Did(log[p], "create_all")
           /\ ~Failed(log[p], "create_all")

\* A call that found an empty database has returned normally with the
\* extension and the tables in place and the index missing.
C11_Witness ==
    /\ pc["p1"] = "done"
    /\ result["p1"] = "returned"
    /\ before["p1"] = {}
    /\ Ext \in schema
    /\ DeclaredTables \subseteq schema
    /\ Idx \notin schema

\* Session s took a step: an operation was performed on it or it changed state.
Acted(s) == slog'[s] # slog[s] \/ sstate'[s] # sstate[s] \/ spc'[s] # spc[s]

\* C12: concurrent scopes never share: each scope has a Session object of its
\* own, no connection is held by two sessions, a session keeps the connection
\* it took until close() returns it to the pool, and a step of one scope
\* (commit, rollback, close, or anything else) leaves every other scope's
\* session, rows and connection as they were and persists only its own rows.
C12_SessionsNotShared ==
    /\ [](\A s, r \in Sids :
            s # r => /\ (sessobj[s] # 0 => sessobj[s] # sessobj[r])
                     /\ (conn[s] # 0 => conn[s] # conn[r]))
    /\ [](\A s \in Sids :
            /\ conn[s] # 0 => sstate[s] \in {"active", "committed", "rolled_back"}
            /\ sstate[s] # "none" => sessobj[s] # 0)
    /\ [][\A s \in Sids :
            /\ (conn[s] # 0 /\ conn'[s] # conn[s]) => (conn'[s] = 0 /\ sstate'[s] = "closed")
            /\ (sessobj[s] # 0 => sessobj'[s] = sessobj[s])
            /\ Acted(s)
               => /\ \A r \in Sids \ {s} :
                       /\ ~Acted(r)
                       /\ pending'[r] = pending[r]
                       /\ conn'[r] = conn[r]
                       /\ exc'[r] = exc[r]
                       /\ outcome'[r] = outcome[r]
                  /\ \A row \in persisted' \ persisted : row[1] = s]_vars

\* Two scopes hold a connection each at the same time: one has committed its
\* row while the other is still active with a row pending.
C12_Witness ==
    \E s, r \in Sids :
        /\ s # r
        /\ conn[s] # 0 /\ conn[r] # 0
        /\ sstate[s] = "committed"
        /\ sstate[r] = "active"
        /\ pending[r] # {}
        /\ RowsOf(s) # {}

\* --- more helpers over a call's log
Pos(L, op) == {i \in 1..Len(L) : L[i].op = op}
Succeeded(L, op) == \E i \in Pos(L, op) : L[i].ok
Earlier(L, op1, op2) == \A j \in Pos(L, op2) : \E i \in Pos(L, op1) : i < j /\ L[i].ok
ExtStepFailed(L) == Failed(L, "query") \/ Failed(L, "create_ext") \/ Failed(L, "commit1")
\* The exception the extension step's handler catches.
Caught(L) == IF Failed(L, "create_ext") THEN ConfigError ELSE DBError

\* C13: the extension step is committed before any table is created and the
\* index is attempted only after table creation; when the query, CREATE
\* EXTENSION or the commit of the extension step raises, the transaction is
\* rolled back and never committed, neither tables nor index are attempted,
\* and the caught exception is the one re-raised to the caller.
C13_ExtensionStepTransaction ==
    \A p \in Procs :
        /\ Earlier(log[p], "commit1", "create_all")
        /\ Earlier(log[p], "create_all", "connect2")
        /\ Earlier(log[p], "create_all", "index")
        /\ ExtStepFailed(log[p])
           => /\ ~Did(log[p], "create_all")
              /\ ~Did(log[p], "index")
              /\ schema = before[p]
              /\ pc[p] = "done"
                 => /\ Did(log[p], "rollback1")
                    /\ txn[p] = {}
                    /\ result[p] = Caught(log[p])

\* C14: a call whose index statement or index commit failed has caught and
\* ignored the failure (it returns normally) after a rollback, has kept the
\* extension and the tables, and has left no index behind; a later call in
\* which the index statement and its commit succeed has created the index.
C14_IndexFailureLeavesRest ==
    \A p \in Procs :
        /\ ( /\ pc[p] = "done"
             /\ Failed(log[p], "index") \/ Failed(log[p], "commit2") )
           => /\ result[p] = "returned"
              /\ Did(log[p], "rollback2")
              /\ txn[p] = {}
              /\ Ext \in schema
              /\ DeclaredTables \subseteq schema
              /\ schema = before[p] \cup {Ext} \cup DeclaredTables
        /\ ( /\ pc[p] = "done"
             /\ Succeeded(log[p], "index")
             /\ Succeeded(log[p], "commit2") )
           => Idx \in schema

\* C16: vector_available is true wherever table creation has been reached, so
\* the guard before the index step is never false: every call whose
\* create_all succeeded goes on into the index block, and issues the index
\* statement once its connection is open.
C16_GuardNeverFalse ==
    \A p \in Procs :
        /\ (pc[p] \in {"create_all", "create_tables", "guard", "connect2", "index", "commit2", "rollback2"}
            \/ Did(log[p], "create_all"))
           => vector_available[p]
        /\ (pc[p] = "done" /\ Succeeded(log[p], "create_all")) => Did(log[p], "connect2")
        /\ (pc[p] = "done" /\ Succeeded(log[p], "connect2")) => Did(log[p], "index")
        /\ Did(log[p], "connect2") => Succeeded(log[p], "create_all")

\* A call stands at the guard after creating the extension itself and then
\* the tables.
C16_Witness ==
    /\ pc["p1"] = "guard"
    /\ Succeeded(log["p1"], "create_ext")
    /\ Succeeded(log["p1"], "create_all")
    /\ vector_available["p1"]

InitDbOps == {"connect1", "query", "create_ext", "commit1", "rollback1", "create_all", "connect2", "index", "commit2", "rollback2"}

\* C15: nothing is retried. Within one init_db call every database round
\* trip, the extension, table and index creation included, is attempted at
\* most once whatever fails; a session_scope calls commit at most once and
\* rollback at most once, and no scope closes its session twice.
C15_NoRetry ==
    /\ \A p \in Procs : \A op \in InitDbOps : Times(log[p], op) <= 1
    /\ \A s \in Sids :
           /\ kind[s] = "scope"
              => /\ Calls(s, "commit") <= 1
                 /\ Calls(s, "rollback") <= 1
           /\ Calls(s, "close") <= 1

\* Everything that can fail has failed once and nothing was tried again: a
\* call ended on a failed rollback after a failed CREATE EXTENSION, and a
\* scope ended after a failed commit and a failed rollback.
C15_Witness ==
    /\ pc["p1"] = "done"
    /\ Failed(log["p1"], "create_ext")
    /\ Failed(log["p1"], "rollback1")
    /\ kind[1] = "scope"
    /\ spc[1] = "done"
    /\ \E i \in Ops(1, "module", "commit") : ~slog[1][i].ok
    /\ \E i \in Ops(1, "module", "rollback") : ~slog[1][i].ok

\* C17: when two processes call init_db against the same database and no
\* database round trip fails for an outside reason, both calls return
\* normally and the database ends with the extension and every declared
\* table (names are unique in the catalog, so one of each and at most one
\* index).
C17_ConcurrentCallsBothSucceed ==
    (\A p \in Procs : pc[p] = "done" /\ NoFault(log[p]))
    => /\ \A p \in Procs : result[p] = "returned"
       /\ Ext \in schema
       /\ DeclaredTables \subseteq schema

====
